---- MODULE Spec2Model ----
(***************************************************************************)
(* Word-prediction engine (rust-autocomplete): the unigram trainer and     *)
(* predictor of simplemodel.rs, the bigram trainer and predictor of        *)
(* bigram_model.rs and the ordering of predictionentry.rs.                 *)
(*                                                                         *)
(* A char is its code point, a string (String, &str) is a sequence of      *)
(* chars, a Vec is a sequence, a HashMap is a function on its key set and  *)
(* an Option is a sequence of length 0 (None) or 1 (Some).  A panic        *)
(* (unwrap on None/Err, index out of bounds) aborts the program: the       *)
(* phase becomes "aborted" and nothing is returned to the caller.          *)
(***************************************************************************)
EXTENDS Integers, Sequences, FiniteSets, TLC

VARIABLES
    phase,        \* unigram program: "none", "training", "finalized", "loaded", "aborted"
    hm,           \* SimpleWordTrainer(HashMap<String, u32>)
    fed,          \* history: how often each token was passed to a train call
    calls,        \* history: number of train calls made
    predictor,    \* Option<SimpleWordPredictor> produced by finalize
    file,         \* Option<contents of the CSV file written by to_file / read by from_file>
    loaded,       \* Option<SimpleWordPredictor> produced by from_file
    query,        \* Option<[on, input]>: the last predict call
    predictions,  \* Vec<PredictionEntry> returned by the last predict call
    bphase,       \* bigram program: "training", "finalized", "aborted"
    outer_map,    \* BigramTrainer.outer_map: HashMap<String, SimpleWordTrainer>
    prev_word,    \* BigramTrainer.prev_word: Option<String>
    stream,       \* history: every token passed to BigramTrainer train calls, in order
    cut,          \* history: length of stream before the most recent train call
    bpredictor,   \* BigramPredictor(HashMap<String, SimpleWordPredictor>)
    bquery,       \* Option<[word1, letters]>: the last BigramPredictor.predict call
    bpredictions  \* Vec<PredictionEntry> returned by the last BigramPredictor.predict call

uvars == <<phase, hm, fed, calls, predictor, file, loaded, query, predictions>>
bvars == <<bphase, outer_map, prev_word, stream, cut, bpredictor, bquery, bpredictions>>
vars == <<phase, hm, fed, calls, predictor, file, loaded, query, predictions,
          bphase, outer_map, prev_word, stream, cut, bpredictor, bquery, bpredictions>>

----------------------------------------------------------------------------
(* Bounds of the model *)

\* longest vector passed to train_vec
MaxLen == 2
\* most train calls on one SimpleWordTrainer
MaxCalls == 2
\* most tokens passed to one BigramTrainer over all its train calls
MaxStream == 4
\* most record lines in a saved file read without training
MaxRecs == 2

----------------------------------------------------------------------------
(* Characters and strings *)

\* ' ' : the separator of train_str
Space == 32
\* ',' : the field separator of the CSV record
Comma == 44
\* '\n': the line terminator of the CSV record, and generate_ixs's placeholder
Newline == 10
\* predictions.truncate(10)
TopK == 10

None == <<>>
Some(x) == <<x>>
IsSome(o) == Len(o) = 1
Unwrap(o) == o[1]

\* char::is_whitespace on the ASCII range, as used by str::trim
IsWhitespace(c) == c \in {9, 10, 11, 12, 13, 32}

IsDigit(c) == c \in 48..57

\* Ord for String: byte-wise lexical comparison, a proper prefix is smaller
RECURSIVE StrLessFrom(_, _, _)
StrLessFrom(s, t, i) ==
    IF i > Len(t) THEN FALSE
    ELSE IF i > Len(s) THEN TRUE
    ELSE IF s[i] < t[i] THEN TRUE
    ELSE IF s[i] > t[i] THEN FALSE
    ELSE StrLessFrom(s, t, i + 1)

StrLess(s, t) == StrLessFrom(s, t, 1)

\* str::starts_with
starts_with(word, input) ==
    /\ Len(input) <= Len(word)
    /\ \A i \in 1..Len(input) : word[i] = input[i]

\* the k-th smallest member of the set of positions P (k in 1..|P|)
Nth(P, k) == CHOOSE i \in P : Cardinality({j \in P : j < i}) = k - 1

\* str::split(sep).collect(): the pieces between the separators, one piece
\* more than there are separators (empty pieces included)
split(s, sep) ==
    LET seps == {i \in 1..Len(s) : s[i] = sep}
        n == Cardinality(seps)
        from(k) == IF k = 1 THEN 1 ELSE Nth(seps, k - 1) + 1
        to(k) == IF k = n + 1 THEN Len(s) ELSE Nth(seps, k) - 1
    IN  [k \in 1..(n + 1) |-> SubSeq(s, from(k), to(k))]

\* str::trim: whitespace removed at both ends
RECURSIVE TrimLeft(_)
TrimLeft(s) ==
    IF s = <<>> THEN s
    ELSE IF IsWhitespace(Head(s)) THEN TrimLeft(Tail(s))
    ELSE s

RECURSIVE TrimRight(_)
TrimRight(s) ==
    IF s = <<>> THEN s
    ELSE IF IsWhitespace(s[Len(s)]) THEN TrimRight(SubSeq(s, 1, Len(s) - 1))
    ELSE s

trim(s) == TrimRight(TrimLeft(s))

\* Display for u32: the decimal digits
RECURSIVE Digits(_)
Digits(n) ==
    IF n < 10 THEN <<48 + n>>
    ELSE Append(Digits(n \div 10), 48 + (n % 10))

\* str::parse::<u32>().ok(): Some(value) of a non-empty string of digits.  Every
\* string of at most nine digits fits u32; the model's files hold no longer one
\* (a longer one is taken not to fit)
RECURSIVE DigitsValue(_, _, _)
DigitsValue(s, i, acc) ==
    IF i > Len(s) THEN acc
    ELSE DigitsValue(s, i + 1, 10 * acc + (s[i] - 48))

parse(s) ==
    IF s /= <<>> /\ Len(s) <= 9 /\ (\A i \in 1..Len(s) : IsDigit(s[i]))
    THEN Some(DigitsValue(s, 1, 0))
    ELSE None

\* BufferedReader::lines: each line with its terminator, and a last
\* unterminated line when the file does not end with the terminator
lines(f) ==
    LET ends == {i \in 1..Len(f) : f[i] = Newline}
        n == Cardinality(ends)
        from(k) == IF k = 1 THEN 1 ELSE Nth(ends, k - 1) + 1
        last == IF n = 0 THEN 0 ELSE Nth(ends, n)
    IN  [k \in 1..n |-> SubSeq(f, from(k), Nth(ends, k))]
        \o (IF last < Len(f) THEN <<SubSeq(f, last + 1, Len(f))>> ELSE <<>>)

RECURSIVE Concat(_)
Concat(ss) == IF ss = <<>> THEN <<>> ELSE Head(ss) \o Concat(Tail(ss))

----------------------------------------------------------------------------
(* predictionentry.rs *)

PredictionEntry(w, n) == [word |-> w, score |-> n]

\* impl Ord for PredictionEntry: the words' comparison, the score is not read
EntryLess(a, b) == StrLess(a.word, b.word)

----------------------------------------------------------------------------
(* simplemodel.rs: SimpleWordTrainer *)

EmptyMap == [w \in {} |-> 0]

\* train_single_word with the Occupied arm inserting 1 like the Vacant arm
train_single_word_overwrites(model_hm, word) ==
    IF Len(word) = 0 THEN model_hm
    ELSE IF word \in DOMAIN model_hm
         THEN [model_hm EXCEPT ![word] = 1]
         ELSE model_hm @@ (word :> 1)

train_single_word(model_hm, word) ==
    IF Len(word) = 0 THEN model_hm
    ELSE IF word \in DOMAIN model_hm
         THEN [model_hm EXCEPT ![word] = @ + 1]
         ELSE model_hm @@ (word :> 1)

RECURSIVE count_words(_, _)
count_words(model_hm, input) ==
    IF input = <<>> THEN model_hm
    ELSE count_words(train_single_word(model_hm, Head(input)), Tail(input))

\* Vec::sort: a stable sort by Ord (here: insertion after the last entry not greater)
RECURSIVE InsertByWord(_, _)
InsertByWord(sorted, e) ==
    IF sorted = <<>> THEN <<e>>
    ELSE IF EntryLess(e, sorted[Len(sorted)])
         THEN Append(InsertByWord(SubSeq(sorted, 1, Len(sorted) - 1), e), sorted[Len(sorted)])
         ELSE Append(sorted, e)

RECURSIVE SortByWordAcc(_, _)
SortByWordAcc(es, acc) ==
    IF es = <<>> THEN acc
    ELSE SortByWordAcc(Tail(es), InsertByWord(acc, Head(es)))

\* finalize without its entries.sort(): the entries stay as the map gave them
sort_keeps_order(es) == es

sort(es) == SortByWordAcc(es, <<>>)

\* the loop body of generate_ixs without its `c != last_c` test: every entry
\* records its offset
generate_ixs_step_always(st, entry) ==
    LET c == entry.word[1] IN
    [ixs |-> [k \in DOMAIN st.ixs \cup {c} |-> IF k = c THEN st.ix ELSE st.ixs[k]],
     last_c |-> c, ix |-> st.ix + 1]

generate_ixs_step(st, entry) ==
    LET c == entry.word[1] IN
    IF c /= st.last_c
    THEN [ixs |-> [k \in DOMAIN st.ixs \cup {c} |-> IF k = c THEN st.ix ELSE st.ixs[k]],
          last_c |-> c, ix |-> st.ix + 1]
    ELSE [st EXCEPT !.ix = @ + 1]

RECURSIVE generate_ixs_loop(_, _)
generate_ixs_loop(st, entries) ==
    IF entries = <<>> THEN st
    ELSE generate_ixs_loop(generate_ixs_step(st, Head(entries)), Tail(entries))

\* entry.word.char_at(0) panics on an empty word
generate_ixs_panics(entries) == \E i \in 1..Len(entries) : entries[i].word = <<>>

generate_ixs(entries) ==
    generate_ixs_loop([ixs |-> [k \in {} |-> 0], last_c |-> Newline, ix |-> 0], entries).ixs

\* `for (key, value) in hm` pushes the pairs in the map's iteration order
RECURSIVE PairsIn(_, _)
PairsIn(model_hm, order) ==
    IF order = <<>> THEN <<>>
    ELSE <<PredictionEntry(Head(order), model_hm[Head(order)])>> \o PairsIn(model_hm, Tail(order))

finalize(model_hm, order) ==
    LET entries == sort(PairsIn(model_hm, order))
    IN  [entries |-> entries, ixs |-> generate_ixs(entries)]

\* the equality #[derive(PartialEq)] would give: word and score both compared
EntryEqDerived(a, b) == a.word = b.word /\ a.score = b.score

\* PartialEq for PredictionEntry: self.word.eq(&other.word)
EntryEq(a, b) == a.word = b.word

\* Ord for PredictionEntry: self.word.cmp(&other.word)
EntryCmp(a, b) ==
    IF StrLess(a.word, b.word) THEN "Less"
    ELSE IF StrLess(b.word, a.word) THEN "Greater"
    ELSE "Equal"

\* assert_eq!(left, right) of the tests passes when left == right
assert_eq(left, right) == EntryEq(left, right)

----------------------------------------------------------------------------
(* simplemodel.rs: SimpleWordPredictor *)

\* the loop of predict leaving at the first entry that does not start with input
RECURSIVE ScanStopsAtMismatch(_, _, _, _)
ScanStopsAtMismatch(entries, i, input, acc) ==
    IF i > Len(entries) THEN acc
    ELSE IF ~starts_with(entries[i].word, input) THEN acc
    ELSE ScanStopsAtMismatch(entries, i + 1, input, Append(acc, entries[i]))

\* the `for entry in iter` loop of predict, from position i (1-based) on
RECURSIVE Scan(_, _, _, _)
Scan(entries, i, input, acc) ==
    IF i > Len(entries) THEN acc
    ELSE IF entries[i].word[1] /= input[1] THEN acc
    ELSE Scan(entries, i + 1, input,
              IF starts_with(entries[i].word, input) THEN Append(acc, entries[i]) ELSE acc)

\* the insertion of an unstable sort: an entry goes before those of equal score
RECURSIVE InsertByScoreUnstable(_, _)
InsertByScoreUnstable(sorted, e) ==
    IF sorted = <<>> THEN <<e>>
    ELSE IF e.score >= sorted[Len(sorted)].score
         THEN Append(InsertByScoreUnstable(SubSeq(sorted, 1, Len(sorted) - 1), e),
                     sorted[Len(sorted)])
         ELSE Append(sorted, e)

\* predictions.sort_by(|a, b| b.score.cmp(&a.score)): a stable sort, the
\* higher score first; equal scores keep the order they were pushed in
RECURSIVE InsertByScore(_, _)
InsertByScore(sorted, e) ==
    IF sorted = <<>> THEN <<e>>
    ELSE IF e.score > sorted[Len(sorted)].score
         THEN Append(InsertByScore(SubSeq(sorted, 1, Len(sorted) - 1), e), sorted[Len(sorted)])
         ELSE Append(sorted, e)

RECURSIVE SortByScoreAcc(_, _)
SortByScoreAcc(es, acc) ==
    IF es = <<>> THEN acc
    ELSE SortByScoreAcc(Tail(es), InsertByScore(acc, Head(es)))

sort_by_score(es) == SortByScoreAcc(es, <<>>)

\* predict without its truncate
truncate_keeps_all(es, n) == es

\* Vec::truncate
truncate(es, n) == IF Len(es) > n THEN SubSeq(es, 1, n) ELSE es

\* SimpleWordPredictor::predict; input.char_at(0) panics on the empty input
predict(p, input) ==
    IF input = <<>> THEN [panic |-> TRUE, out |-> <<>>]
    ELSE IF input[1] \notin DOMAIN p.ixs THEN [panic |-> FALSE, out |-> <<>>]
    ELSE [panic |-> FALSE,
          out |-> truncate(sort_by_score(Scan(p.entries, p.ixs[input[1]] + 1, input, <<>>)), TopK)]

\* one record line of to_file: "{},{}\n"
record_line(entry) == entry.word \o <<Comma>> \o Digits(entry.score) \o <<Newline>>

RECURSIVE to_file_from(_, _)
to_file_from(entries, i) ==
    IF i > Len(entries) THEN <<>>
    ELSE record_line(entries[i]) \o to_file_from(entries, i + 1)

\* SimpleWordPredictor::to_file: the contents written
to_file(p) == to_file_from(p.entries, 1)

\* the body of from_file's loop: None where str_entry[1] or the unwrap panics
parse_line(line) ==
    LET str_entry == split(trim(line), Comma) IN
    IF Len(str_entry) < 2 THEN None
    ELSE IF parse(str_entry[2]) = None THEN None
    ELSE Some(PredictionEntry(str_entry[1], Unwrap(parse(str_entry[2]))))

\* SimpleWordPredictor::from_file on a file's contents (None: no such file)
from_file(contents) ==
    IF contents = None THEN [panic |-> TRUE, value |-> None]
    ELSE LET ls == lines(Unwrap(contents))
             parsed == [i \in 1..Len(ls) |-> parse_line(ls[i])]
         IN  IF \E i \in 1..Len(ls) : parsed[i] = None
             THEN [panic |-> TRUE, value |-> None]
             ELSE LET entries == [i \in 1..Len(ls) |-> Unwrap(parsed[i])]
                  IN  IF generate_ixs_panics(entries)
                      THEN [panic |-> TRUE, value |-> None]
                      ELSE [panic |-> FALSE,
                            value |-> Some([entries |-> entries, ixs |-> generate_ixs(entries)])]

----------------------------------------------------------------------------
(* Inputs *)

RECURSIVE Join(_)
Join(ws) ==
    IF ws = <<>> THEN <<>>
    ELSE IF Len(ws) = 1 THEN Head(ws)
    ELSE Head(ws) \o <<Space>> \o Join(Tail(ws))

\* tokens of train_vec and train_word: "", "a", "ab"
Tokens == {<<>>, <<97>>, <<97, 98>>}

Vectors == UNION {[1..n -> Tokens] : n \in 0..MaxLen}

\* a passage with fourteen words in "a", eleven of them in "aa", scores 1 to
\* 3, and two words in "b":
\*   a aa aaa aab aaaa aaab aaba aabb aaaaa aaaab aabba aabbb ab abab b ba
\*   abab abab aabbb aabbb aab ab
Passage ==
    Join(<< <<97>>, <<97, 97>>, <<97, 97, 97>>, <<97, 97, 98>>, <<97, 97, 97, 97>>,
            <<97, 97, 97, 98>>, <<97, 97, 98, 97>>, <<97, 97, 98, 98>>,
            <<97, 97, 97, 97, 97>>, <<97, 97, 97, 97, 98>>, <<97, 97, 98, 98, 97>>,
            <<97, 97, 98, 98, 98>>, <<97, 98>>, <<97, 98, 97, 98>>, <<98>>, <<98, 97>>,
            <<97, 98, 97, 98>>, <<97, 98, 97, 98>>, <<97, 97, 98, 98, 98>>,
            <<97, 97, 98, 98, 98>>, <<97, 97, 98>>, <<97, 98>> >>)

\* strings of train_str: the passage; "a  b " (a doubled and a trailing space);
\* "a,b b" (a word with a comma); "b" ten times; the empty string
Texts ==
    { Passage,
      <<97, 32, 32, 98, 32>>,
      <<97, 44, 98, 32, 98>>,
      Join([i \in 1..10 |-> <<98>>]),
      <<>> }

\* inputs of predict: "", "a", "aa", "ab", "b", "c", "a,"
Prefixes == {<<>>, <<97>>, <<97, 97>>, <<97, 98>>, <<98>>, <<99>>, <<97, 44>>}

\* lines of a saved file: "b,1", "a,2", "ab,1", "a,1", "x" (no comma),
\* "a,z" (no number), ",1" (no word)
RecordLines ==
    { <<98, 44, 49, 10>>, <<97, 44, 50, 10>>, <<97, 98, 44, 49, 10>>, <<97, 44, 49, 10>>,
      <<120, 10>>, <<97, 44, 122, 10>>, <<44, 49, 10>> }

SavedFiles == {Concat(ls) : ls \in UNION {[1..n -> RecordLines] : n \in 0..MaxRecs}}

\* the keys of a map in ascending order
RECURSIVE Ascending(_)
Ascending(S) ==
    IF S = {} THEN <<>>
    ELSE LET m == CHOOSE x \in S : \A y \in S \ {x} : StrLess(x, y)
         IN  <<m>> \o Ascending(S \ {m})

Reverse(s) == [i \in 1..Len(s) |-> s[Len(s) + 1 - i]]

Rotate(s, k) == [i \in 1..Len(s) |-> s[((i + k - 1) % Len(s)) + 1]]

\* one iteration order of a HashMap with key set S: the ascending order, or
\* the descending one when `rev`, rotated by k places
IterOrder(S, k, rev) ==
    LET asc == Ascending(S) IN
    IF S = {} THEN <<>>
    ELSE Rotate(IF rev THEN Reverse(asc) ELSE asc, k % Len(asc))

\* the iteration orders of a HashMap that the model draws from
IterOrders(S) ==
    {IterOrder(S, k, rev) : k \in 0..(IF S = {} THEN 0 ELSE Cardinality(S) - 1), rev \in BOOLEAN}

\* history: the tokens of one train call added to the bag of tokens fed
AddFed(bag, input) ==
    LET new == {input[i] : i \in DOMAIN input} IN
    [t \in DOMAIN bag \cup new |->
        (IF t \in DOMAIN bag THEN bag[t] ELSE 0) + Cardinality({i \in DOMAIN input : input[i] = t})]

----------------------------------------------------------------------------
(* The unigram program *)

Init ==
    /\ phase = "none"
    /\ hm = EmptyMap
    /\ fed = EmptyMap
    /\ calls = 0
    /\ predictor = None
    /\ file = None
    /\ loaded = None
    /\ query = None
    /\ predictions = <<>>
    /\ bphase = "training"
    /\ outer_map = EmptyMap
    /\ prev_word = None
    /\ stream = <<>>
    /\ cut = 0
    /\ bpredictor = EmptyMap
    /\ bquery = None
    /\ bpredictions = <<>>

\* a train call with the vector `input`
Train(input) ==
    /\ hm' = count_words(hm, input)
    /\ fed' = AddFed(fed, input)
    /\ calls' = calls + 1
    /\ UNCHANGED <<predictor, file, loaded, query, predictions>>

\* SimpleWordTrainer::new
New ==
    /\ phase = "none"
    /\ phase' = "training"
    /\ UNCHANGED <<hm, fed, calls, predictor, file, loaded, query, predictions>>
    /\ UNCHANGED bvars

\* SimpleWordTrainer::from_str
FromStr ==
    /\ phase = "none"
    /\ \E input \in Texts : Train(split(input, Space))
    /\ phase' = "training"
    /\ UNCHANGED bvars

\* SimpleWordTrainer::from_vec
FromVec ==
    /\ phase = "none"
    /\ \E input \in Vectors : Train(input)
    /\ phase' = "training"
    /\ UNCHANGED bvars

\* SimpleWordTrainer::train_str
TrainStr ==
    /\ phase = "training"
    /\ calls < MaxCalls
    /\ \E input \in Texts : Train(split(input, Space))
    /\ UNCHANGED phase
    /\ UNCHANGED bvars

\* SimpleWordTrainer::train_vec
TrainVec ==
    /\ phase = "training"
    /\ calls < MaxCalls
    /\ \E input \in Vectors : Train(input)
    /\ UNCHANGED phase
    /\ UNCHANGED bvars

\* SimpleWordTrainer::train_word
TrainWord ==
    /\ phase = "training"
    /\ calls < MaxCalls
    /\ \E input \in Tokens :
        /\ hm' = train_single_word(hm, input)
        /\ fed' = AddFed(fed, <<input>>)
    /\ calls' = calls + 1
    /\ UNCHANGED <<phase, predictor, file, loaded, query, predictions>>
    /\ UNCHANGED bvars

\* SimpleWordTrainer::finalize
Finalize ==
    /\ phase = "training"
    /\ \E order \in IterOrders(DOMAIN hm) : predictor' = Some(finalize(hm, order))
    /\ phase' = "finalized"
    /\ UNCHANGED <<hm, fed, calls, file, loaded, query, predictions>>
    /\ UNCHANGED bvars

\* SimpleWordPredictor::predict on the predictor `on` names
PredictOn(on, p) ==
    \E input \in Prefixes :
        LET r == predict(p, input) IN
        /\ query' = Some([on |-> on, input |-> input])
        /\ predictions' = r.out
        /\ phase' = IF r.panic THEN "aborted" ELSE phase
        /\ UNCHANGED <<hm, fed, calls, predictor, file, loaded>>

Predict ==
    /\ phase = "finalized"
    /\ PredictOn("predictor", Unwrap(predictor))
    /\ UNCHANGED bvars

PredictLoaded ==
    /\ phase \in {"finalized", "loaded"}
    /\ IsSome(loaded)
    /\ PredictOn("loaded", Unwrap(loaded))
    /\ UNCHANGED bvars

\* SimpleWordPredictor::to_file
ToFile ==
    /\ phase = "finalized"
    /\ file = None
    /\ file' = Some(to_file(Unwrap(predictor)))
    /\ UNCHANGED <<phase, hm, fed, calls, predictor, loaded, query, predictions>>
    /\ UNCHANGED bvars

\* SimpleWordPredictor::from_file on the file to_file wrote (or on no file)
FromFile ==
    /\ phase = "finalized"
    /\ loaded = None
    /\ LET r == from_file(file) IN
        /\ loaded' = r.value
        /\ phase' = IF r.panic THEN "aborted" ELSE phase
    /\ UNCHANGED <<hm, fed, calls, predictor, file, query, predictions>>
    /\ UNCHANGED bvars

\* SimpleWordPredictor::from_file on a file saved earlier, with no training
LoadSaved ==
    /\ phase = "none"
    /\ \E f \in SavedFiles :
        LET r == from_file(Some(f)) IN
        /\ file' = Some(f)
        /\ loaded' = r.value
        /\ phase' = IF r.panic THEN "aborted" ELSE "loaded"
    /\ UNCHANGED <<hm, fed, calls, predictor, query, predictions>>
    /\ UNCHANGED bvars

Next ==
    \/ New
    \/ FromStr
    \/ FromVec
    \/ TrainStr
    \/ TrainVec
    \/ TrainWord
    \/ Finalize
    \/ Predict
    \/ PredictLoaded
    \/ ToFile
    \/ FromFile
    \/ LoadSaved

Spec == Init /\ [][Next]_vars

----------------------------------------------------------------------------
(* bigram_model.rs *)

\* BigramTrainer::new
BigramNew == [outer_map |-> EmptyMap, prev_word |-> None]

\* the body of count_words's loop: the Vacant and the Occupied arm both end
\* with train_word(word) on the inner trainer stored under last_word
bigram_step(model, last_word, word) ==
    LET inner == IF last_word \in DOMAIN model THEN model[last_word] ELSE EmptyMap
    IN  [k \in DOMAIN model \cup {last_word} |->
            IF k = last_word THEN train_single_word(inner, word) ELSE model[k]]

RECURSIVE bigram_loop(_, _, _)
bigram_loop(model, last_word, rest) ==
    IF rest = <<>> THEN [outer_map |-> model, prev_word |-> Some(last_word)]
    ELSE bigram_loop(bigram_step(model, last_word, Head(rest)), Head(rest), Tail(rest))

\* count_words seeding from input[0] in every call, the pending word not read
bigram_count_words_forgets(trainer, input) ==
    IF input = <<>>
    THEN [panic |-> TRUE, trainer |-> trainer]
    ELSE [panic |-> FALSE, trainer |-> bigram_loop(trainer.outer_map, input[1], Tail(input))]

\* count_words of bigram_model.rs; input[0] panics on an empty vector when
\* no word is pending
bigram_count_words(trainer, input) ==
    IF trainer.prev_word = None
    THEN IF input = <<>>
         THEN [panic |-> TRUE, trainer |-> trainer]
         ELSE [panic |-> FALSE, trainer |-> bigram_loop(trainer.outer_map, input[1], Tail(input))]
    ELSE [panic |-> FALSE,
          trainer |-> bigram_loop(trainer.outer_map, Unwrap(trainer.prev_word), input)]

\* BigramTrainer::finalize, every inner map iterated in the order (k, rev)
bigram_finalize(model, k, rev) ==
    [w \in DOMAIN model |-> finalize(model[w], IterOrder(DOMAIN model[w], k, rev))]

\* BigramPredictor::predict looking up the letters where it should the word
bigram_predict_swapped(bp, word1, letters) ==
    IF letters \in DOMAIN bp THEN predict(bp[letters], letters)
    ELSE [panic |-> FALSE, out |-> <<>>]

\* BigramPredictor::predict with get_simplemodel
bigram_predict(bp, word1, letters) ==
    IF word1 \in DOMAIN bp THEN predict(bp[word1], letters)
    ELSE [panic |-> FALSE, out |-> <<>>]

\* tokens of BigramTrainer::train_vec: "", "a", "b"
BigramTokens == {<<>>, <<97>>, <<98>>}

BigramVectors == UNION {[1..n -> BigramTokens] : n \in 0..MaxLen}

\* strings of BigramTrainer::train_str: "a b a", "a  b" (a doubled space),
\* " b" (a leading space), "b " (a trailing space), the empty string
BigramTexts ==
    { <<97, 32, 98, 32, 97>>, <<97, 32, 32, 98>>, <<32, 98>>, <<98, 32>>, <<>> }

\* conditioning words and letters of BigramPredictor::predict
BigramWords == {<<>>, <<97>>, <<98>>, <<99>>}

BigramLetters == {<<>>, <<97>>, <<98>>}

\* the most keys an inner trainer of the model can hold
MaxInnerKeys == Cardinality(BigramTokens)

BigramTrain(input) ==
    /\ Len(stream) + Len(input) <= MaxStream
    /\ LET r == bigram_count_words([outer_map |-> outer_map, prev_word |-> prev_word], input) IN
        /\ outer_map' = r.trainer.outer_map
        /\ prev_word' = r.trainer.prev_word
        /\ bphase' = IF r.panic THEN "aborted" ELSE bphase
    /\ stream' = stream \o input
    /\ cut' = Len(stream)
    /\ UNCHANGED <<bpredictor, bquery, bpredictions>>

\* BigramTrainer::train_vec
BigramTrainVec ==
    /\ bphase = "training"
    /\ \E input \in BigramVectors : BigramTrain(input)
    /\ UNCHANGED uvars

\* BigramTrainer::train_str
BigramTrainStr ==
    /\ bphase = "training"
    /\ \E input \in BigramTexts : BigramTrain(split(input, Space))
    /\ UNCHANGED uvars

\* BigramTrainer::finalize
BigramFinalize ==
    /\ bphase = "training"
    /\ \E k \in 0..(MaxInnerKeys - 1), rev \in BOOLEAN :
        bpredictor' = bigram_finalize(outer_map, k, rev)
    /\ bphase' = "finalized"
    /\ UNCHANGED <<outer_map, prev_word, stream, cut, bquery, bpredictions>>
    /\ UNCHANGED uvars

\* BigramPredictor::predict
BigramPredict ==
    /\ bphase = "finalized"
    /\ \E word1 \in BigramWords, letters \in BigramLetters :
        LET r == bigram_predict(bpredictor, word1, letters) IN
        /\ bquery' = Some([word1 |-> word1, letters |-> letters])
        /\ bpredictions' = r.out
        /\ bphase' = IF r.panic THEN "aborted" ELSE bphase
    /\ UNCHANGED <<outer_map, prev_word, stream, cut, bpredictor>>
    /\ UNCHANGED uvars

BigramNext ==
    \/ BigramTrainVec
    \/ BigramTrainStr
    \/ BigramFinalize
    \/ BigramPredict

BigramSpec == Init /\ [][BigramNext]_vars

----------------------------------------------------------------------------
(* models.rs: SimpleWordModel and its SimpleWordPredictor; bin.rs *)

SimpleWordEntry(w, n) == [word |-> w, score |-> n]

\* count_words of models.rs: every token is counted, the empty one too
RECURSIVE models_count_words(_, _)
models_count_words(model_hm, input) ==
    IF input = <<>> THEN model_hm
    ELSE LET word == Head(input)
             counted == IF word \in DOMAIN model_hm
                        THEN [model_hm EXCEPT ![word] = @ + 1]
                        ELSE model_hm @@ (word :> 1)
         IN  models_count_words(counted, Tail(input))

\* `for (key, value) in hm` of SimpleWordModel::finalize
RECURSIVE models_pairs(_, _)
models_pairs(model_hm, order) ==
    IF order = <<>> THEN <<>>
    ELSE <<SimpleWordEntry(Head(order), model_hm[Head(order)])>>
             \o models_pairs(model_hm, Tail(order))

\* generate_ixs of models.rs, the same text as the one of simplemodel.rs
models_generate_ixs(entries) == generate_ixs(entries)

\* SimpleWordModel::finalize; entries.sort() orders by word (Ord of
\* SimpleWordEntry), and generate_ixs panics at char_at(0) of an empty word
models_finalize(model_hm, order) ==
    LET entries == sort(models_pairs(model_hm, order)) IN
    IF generate_ixs_panics(entries)
    THEN [panic |-> TRUE, value |-> None]
    ELSE [panic |-> FALSE,
          value |-> Some([entries |-> entries, ixs |-> models_generate_ixs(entries)])]

\* the `for entry in iter` loop of predict in models.rs, from position i
\* (1-based) on: it breaks at the first entry whose word is less than input
RECURSIVE models_scan(_, _, _, _)
models_scan(entries, i, input, acc) ==
    IF i > Len(entries) THEN acc
    ELSE IF StrLess(entries[i].word, input) THEN acc
    ELSE models_scan(entries, i + 1, input,
                     IF starts_with(entries[i].word, input)
                     THEN Append(acc, entries[i]) ELSE acc)

\* SimpleWordPredictor::predict of models.rs: no truncate; input.char_at(0)
\* panics on the empty input
models_predict(p, input) ==
    IF input = <<>> THEN [panic |-> TRUE, out |-> <<>>]
    ELSE IF input[1] \notin DOMAIN p.ixs THEN [panic |-> FALSE, out |-> <<>>]
    ELSE [panic |-> FALSE,
          out |-> sort_by_score(models_scan(p.entries, p.ixs[input[1]] + 1, input, <<>>))]

\* clean_line of bin.rs on one byte: space and a-z are kept, '@' and A-Z are
\* moved up by 32, any other byte is dropped
clean_byte(byte) ==
    IF byte = 32 THEN <<byte>>
    ELSE IF byte >= 97 /\ byte <= 122 THEN <<byte>>
    ELSE IF byte >= 64 /\ byte <= 90 THEN <<byte + 32>>
    ELSE <<>>

clean_line(line) == Concat([i \in 1..Len(line) |-> clean_byte(line[i])])

\* strings of from_str and train_str: "a ab", "b a ab ab", "ab b", "a  b"
\* (a doubled space), the empty string
ModelsTexts ==
    { <<97, 32, 97, 98>>,
      <<98, 32, 97, 32, 97, 98, 32, 97, 98>>,
      <<97, 98, 32, 98>>,
      <<97, 32, 32, 98>>,
      <<>> }

\* lines of big.txt: "A ab.\n", "b, Ab\n", "\n"
BinLines ==
    { <<65, 32, 97, 98, 46, 10>>, <<98, 44, 32, 65, 98, 10>>, <<10>> }

\* lines typed at the prompt of main: "a\n", " ab \n", "b\n", "\n"
BinInputs == { <<97, 10>>, <<32, 97, 98, 32, 10>>, <<98, 10>>, <<10>> }

\* a train call of models.rs with the vector `input`
ModelsTrain(input) ==
    /\ hm' = models_count_words(hm, input)
    /\ fed' = AddFed(fed, input)
    /\ calls' = calls + 1
    /\ UNCHANGED <<predictor, file, loaded, query, predictions>>
    /\ UNCHANGED bvars

\* SimpleWordModel::new
ModelsNew ==
    /\ phase = "none"
    /\ phase' = "training"
    /\ UNCHANGED <<hm, fed, calls, predictor, file, loaded, query, predictions>>
    /\ UNCHANGED bvars

\* SimpleWordModel::from_str
ModelsFromStr ==
    /\ phase = "none"
    /\ \E input \in ModelsTexts : ModelsTrain(split(input, Space))
    /\ phase' = "training"

\* SimpleWordModel::from_vec
ModelsFromVec ==
    /\ phase = "none"
    /\ \E input \in Vectors : ModelsTrain(input)
    /\ phase' = "training"

\* SimpleWordModel::train_str
ModelsTrainStr ==
    /\ phase = "training"
    /\ calls < MaxCalls
    /\ \E input \in ModelsTexts : ModelsTrain(split(input, Space))
    /\ UNCHANGED phase

\* SimpleWordModel::train_vec
ModelsTrainVec ==
    /\ phase = "training"
    /\ calls < MaxCalls
    /\ \E input \in Vectors : ModelsTrain(input)
    /\ UNCHANGED phase

\* one turn of the loop of train_model in bin.rs
ModelsTrainLine ==
    /\ phase = "training"
    /\ calls < MaxCalls
    /\ \E line \in BinLines : ModelsTrain(split(clean_line(line), Space))
    /\ UNCHANGED phase

\* SimpleWordModel::finalize
ModelsFinalize ==
    /\ phase = "training"
    /\ \E order \in IterOrders(DOMAIN hm) :
        LET r == models_finalize(hm, order) IN
        /\ predictor' = r.value
        /\ phase' = IF r.panic THEN "aborted" ELSE "finalized"
    /\ UNCHANGED <<hm, fed, calls, file, loaded, query, predictions>>
    /\ UNCHANGED bvars

\* predict of models.rs with `input`
ModelsPredictWith(input) ==
    LET r == models_predict(Unwrap(predictor), input) IN
    /\ query' = Some([on |-> "models", input |-> input])
    /\ predictions' = r.out
    /\ phase' = IF r.panic THEN "aborted" ELSE phase
    /\ UNCHANGED <<hm, fed, calls, predictor, file, loaded>>
    /\ UNCHANGED bvars

\* SimpleWordPredictor::predict of models.rs
ModelsPredict ==
    /\ phase = "finalized"
    /\ \E input \in Prefixes : ModelsPredictWith(input)

\* one turn of the loop of main in bin.rs: predict(input.trim())
ModelsMainInput ==
    /\ phase = "finalized"
    /\ \E input \in BinInputs : ModelsPredictWith(trim(input))

ModelsNext ==
    \/ ModelsNew
    \/ ModelsFromStr
    \/ ModelsFromVec
    \/ ModelsTrainStr
    \/ ModelsTrainVec
    \/ ModelsTrainLine
    \/ ModelsFinalize
    \/ ModelsPredict
    \/ ModelsMainInput

ModelsSpec == Init /\ [][ModelsNext]_vars

----------------------------------------------------------------------------
(* Properties of the unigram program *)

\* occurrences of token t over all train calls
Fed(t) == IF t \in DOMAIN fed THEN fed[t] ELSE 0

\* the entries of predictor p whose word starts with input
Matches(p, input) == {i \in 1..Len(p.entries) : starts_with(p.entries[i].word, input)}

Min(a, b) == IF a < b THEN a ELSE b

\* the last predict call was made with the empty string
EmptyPrefixQuery == IsSome(query) /\ Unwrap(query).input = <<>>

\* the last predict call was made on predictor `on` with a non-empty input
\* and returned
Answered(on) ==
    /\ IsSome(query)
    /\ Unwrap(query).on = on
    /\ Unwrap(query).input /= <<>>
    /\ phase /= "aborted"

\* C1: the score stored for each word, and the score of its entry after
\* finalize, is the number of occurrences of that non-empty token over all
\* train calls; the empty token contributes nothing and a word absent from
\* the input has no entry.
C1_ScoresCountOccurrences ==
    /\ <<>> \notin DOMAIN hm
    /\ \A w \in DOMAIN hm : hm[w] = Fed(w) /\ hm[w] >= 1
    /\ \A t \in DOMAIN fed : t /= <<>> => t \in DOMAIN hm
    /\ IsSome(predictor) =>
        LET es == Unwrap(predictor).entries IN
        /\ Len(es) = Cardinality(DOMAIN hm)
        /\ \A i \in 1..Len(es) : es[i].word \in DOMAIN hm /\ es[i].score = Fed(es[i].word)
        /\ \A w \in DOMAIN hm : \E i \in 1..Len(es) : es[i].word = w

\* a finalized trainer that was fed, in two calls or more, the empty token
\* and some word more than once
C1_Witness ==
    /\ phase = "finalized"
    /\ calls >= 2
    /\ Fed(<<>>) >= 1
    /\ \E i \in 1..Len(Unwrap(predictor).entries) : Unwrap(predictor).entries[i].score >= 2

C3_AtMostTenAllWithPrefix ==
    (IsSome(query) /\ Unwrap(query).input /= <<>>) =>
        /\ Len(predictions) <= TopK
        /\ \A j \in 1..Len(predictions) : starts_with(predictions[j].word, Unwrap(query).input)

\* an index read from a file, with more than ten matches, answers with ten
C3_Witness ==
    /\ Answered("loaded")
    /\ Cardinality(Matches(Unwrap(loaded), Unwrap(query).input)) > TopK
    /\ Len(predictions) = TopK

\* C4: on a predictor made by finalize, the returned entries are in
\* non-increasing score order, two returned entries of equal score are in
\* ascending order of their words, and the first returned entry has the
\* highest score of all entries that start with the prefix.
C4_RankedStably ==
    Answered("predictor") =>
        LET p == Unwrap(predictor)
            input == Unwrap(query).input
        IN  /\ \A j \in 1..(Len(predictions) - 1) :
                   \/ predictions[j].score > predictions[j + 1].score
                   \/ /\ predictions[j].score = predictions[j + 1].score
                      /\ StrLess(predictions[j].word, predictions[j + 1].word)
            /\ predictions /= <<>> =>
                   \A i \in Matches(p, input) : p.entries[i].score <= predictions[1].score
            /\ Matches(p, input) /= {} => predictions /= <<>>

\* an answer with a tie between two entries below a higher-scored first entry
C4_Witness ==
    /\ Answered("predictor")
    /\ Len(predictions) >= 3
    /\ predictions[1].score > predictions[Len(predictions)].score
    /\ \E j \in 1..(Len(predictions) - 1) : predictions[j].score = predictions[j + 1].score

\* C9: predict with the empty string as prefix is rejected with an error
\* value that is returned to the caller (the call returns; the program is
\* not aborted), on every index.
C9_EmptyPrefixReturnsError ==
    EmptyPrefixQuery => phase /= "aborted"

\* from_file was called on the file that to_file wrote from the predictor
RoundTripped ==
    /\ IsSome(predictor)
    /\ IsSome(file)
    /\ IsSome(loaded) \/ (phase = "aborted" /\ ~EmptyPrefixQuery)

\* C10: writing a predictor made by finalize with to_file and reading the
\* lines back with from_file yields an index with the same entries and the
\* same bucket index, hence the same predict result for every non-empty
\* prefix.
C10_RoundTrip ==
    RoundTripped =>
        /\ IsSome(loaded)
        /\ Unwrap(loaded).entries = Unwrap(predictor).entries
        /\ Unwrap(loaded).ixs = Unwrap(predictor).ixs
        /\ \A input \in Prefixes \ {<<>>} :
               predict(Unwrap(loaded), input) = predict(Unwrap(predictor), input)

----------------------------------------------------------------------------
(* Properties of the bigram program *)

\* the tokens of a stream that are not empty, in order
NonEmpty(t) == SelectSeq(t, LAMBDA x : x /= <<>>)

\* positions i of t, beyond the first, where w follows p
PairCount(t, p, w) == Cardinality({i \in 2..Len(t) : t[i - 1] = p /\ t[i] = w})

\* the count stored for w under the conditioning word p
Stored(p, w) ==
    IF p \in DOMAIN outer_map /\ w \in DOMAIN outer_map[p] THEN outer_map[p][w] ELSE 0

\* every word the trainer holds or was fed
BigramSeen ==
    BigramTokens \cup DOMAIN outer_map \cup UNION {DOMAIN outer_map[p] : p \in DOMAIN outer_map}

\* C5: feeding a token stream to one BigramTrainer in successive train calls,
\* however it is cut into chunks, leaves the same outer map and the same
\* pending word as feeding the whole stream in a single call; the pair made
\* of the last token of one call and the first token of the next is counted.
C5_BigramContinuity ==
    (bphase /= "aborted" /\ stream /= <<>>) =>
        LET whole == bigram_count_words(BigramNew, stream) IN
        /\ ~whole.panic
        /\ whole.trainer.outer_map = outer_map
        /\ whole.trainer.prev_word = prev_word

\* a second call whose first token was counted under the last token of the
\* call before it
C5_Witness ==
    /\ bphase = "training"
    /\ cut >= 2
    /\ cut < Len(stream)
    /\ stream[cut] /= <<>>
    /\ stream[cut + 1] /= <<>>
    /\ stream[cut] /= stream[cut - 1]
    /\ Stored(stream[cut], stream[cut + 1]) = 1

\* C6: with t the non-empty tokens of all train calls in order, the count
\* stored for w under p is the number of positions i >= 1 with t[i-1] = p
\* and t[i] = w; the first token is a seed only.
C6_CountsArePairCounts ==
    bphase /= "aborted" =>
        \A p \in BigramSeen, w \in BigramSeen :
            Stored(p, w) = PairCount(NonEmpty(stream), p, w)

\* the same on the streams that hold no empty token
C6_OnStreamsWithoutEmptyTokens ==
    (bphase /= "aborted" /\ NonEmpty(stream) = stream) =>
        \A p \in BigramSeen, w \in BigramSeen :
            Stored(p, w) = PairCount(stream, p, w)

\* C7: empty tokens are skipped without touching the carried state: the
\* pending word is the most recent non-empty token processed and is never
\* the empty string.
C7_PendingWordSkipsEmptyTokens ==
    bphase /= "aborted" =>
        /\ prev_word /= Some(<<>>)
        /\ NonEmpty(stream) /= <<>> =>
               prev_word = Some(NonEmpty(stream)[Len(NonEmpty(stream))])

\* C8: BigramPredictor.predict(word1, letters) returns the empty sequence,
\* and no error, when word1 was never a conditioning word, and otherwise
\* what predict(letters) returns on the finalized inner trainer of word1,
\* for every non-empty letters.
C8_BigramPredictDelegates ==
    IsSome(bquery) =>
        LET q == Unwrap(bquery) IN
        /\ q.word1 \notin DOMAIN outer_map =>
               bphase = "finalized" /\ bpredictions = <<>>
        /\ (q.word1 \in DOMAIN outer_map /\ q.letters /= <<>>) =>
               /\ bphase = "finalized"
               /\ bpredictions =
                      predict(finalize(outer_map[q.word1], Ascending(DOMAIN outer_map[q.word1])),
                              q.letters).out

\* a conditioning word with two completions in the queried letter, ranked
C8_Witness ==
    /\ bphase = "finalized"
    /\ IsSome(bquery)
    /\ Unwrap(bquery).word1 \in DOMAIN outer_map
    /\ Len(bpredictions) >= 1
    /\ bpredictions[1].score >= 2

----------------------------------------------------------------------------
(* Properties of saved files and of the index *)

\* the last action read a saved file (no trainer was made): LoadSaved
ReadSaved == phase \in {"loaded", "aborted"} /\ predictor = None /\ IsSome(file)

\* the fields of a record line, its terminator and outer whitespace removed
Fields(line) == split(trim(line), Comma)

\* a record line of the form <word>,<score>: a non-empty word, one comma and
\* an unsigned number
WellFormedLine(line) ==
    /\ Len(Fields(line)) = 2
    /\ Fields(line)[1] /= <<>>
    /\ Fields(line)[2] /= <<>>
    /\ \A i \in 1..Len(Fields(line)[2]) : IsDigit(Fields(line)[2][i])

\* every line of the file is well formed and no word occurs twice
WellFormedDistinct(f) ==
    LET ls == lines(f) IN
    /\ \A i \in 1..Len(ls) : WellFormedLine(ls[i])
    /\ \A i, j \in 1..Len(ls) : Fields(ls[i])[1] = Fields(ls[j])[1] => i = j

\* the index from_file builds from the records of f given in ascending word order
FromSortedRecords(f) ==
    LET ls == lines(f)
        es == [i \in 1..Len(ls) |-> Unwrap(parse_line(ls[i]))]
    IN  Unwrap(from_file(Some(to_file_from(sort(es), 1))).value)

\* C11: from_file does not require sorted input: on well-formed records with
\* distinct non-empty words in any order, the index it builds answers every
\* non-empty prefix as the index built from the same records in ascending
\* word order does.
C11_FromFileAnyOrder ==
    (ReadSaved /\ WellFormedDistinct(Unwrap(file))) =>
        /\ IsSome(loaded)
        /\ \A input \in Prefixes \ {<<>>} :
               predict(Unwrap(loaded), input) = predict(FromSortedRecords(Unwrap(file)), input)

\* the same on the files whose records are in ascending word order already
C11_OnSortedFiles ==
    (ReadSaved /\ WellFormedDistinct(Unwrap(file))
       /\ \A i \in 1..(Len(lines(Unwrap(file))) - 1) :
              StrLess(Fields(lines(Unwrap(file))[i])[1], Fields(lines(Unwrap(file))[i + 1])[1])) =>
        /\ IsSome(loaded)
        /\ \A input \in Prefixes \ {<<>>} :
               predict(Unwrap(loaded), input) = predict(FromSortedRecords(Unwrap(file)), input)

\* C12: a malformed record (no comma, a score that is no unsigned number, an
\* empty word) makes from_file end in FormatError, a result value returned
\* to the caller: the program is not aborted and no index holds the record.
C12_MalformedGivesFormatError ==
    (ReadSaved /\ \E i \in 1..Len(lines(Unwrap(file))) : ~WellFormedLine(lines(Unwrap(file))[i])) =>
        /\ phase /= "aborted"
        /\ loaded = None

----------------------------------------------------------------------------
(* Properties of models.rs *)

\* C14: the predict of models.rs keeps the prefix-search contract: for every
\* predictor made by SimpleWordModel::finalize and every non-empty input, it
\* returns every entry whose word starts with input and only such entries,
\* the higher score first.
C14_ModelsPrefixSearch ==
    Answered("models") =>
        LET p == Unwrap(predictor)
            input == Unwrap(query).input
        IN  /\ {predictions[i] : i \in 1..Len(predictions)}
                  = {p.entries[i] : i \in Matches(p, input)}
            /\ Len(predictions) = Cardinality(Matches(p, input))
            /\ \A i \in 1..(Len(predictions) - 1) :
                   predictions[i].score >= predictions[i + 1].score

\* the contract holds for inputs of one character
C14_OnOneLetterInputs ==
    (Answered("models") /\ Len(Unwrap(query).input) = 1) =>
        LET p == Unwrap(predictor)
            input == Unwrap(query).input
        IN  /\ {predictions[i] : i \in 1..Len(predictions)}
                  = {p.entries[i] : i \in Matches(p, input)}
            /\ Len(predictions) = Cardinality(Matches(p, input))
            /\ \A i \in 1..(Len(predictions) - 1) :
                   predictions[i].score >= predictions[i + 1].score

----------------------------------------------------------------------------
(* Properties of the bigram trainer, continued *)

\* a step that is a train call with the empty vector: the trainer was
\* training, was not finalized, and the stream of tokens did not grow
EmptyVectorTrainStep ==
    /\ bphase = "training"
    /\ bphase' /= "finalized"
    /\ stream' = stream
    /\ cut' = Len(stream)
    /\ <<bpredictor, bquery, bpredictions>>' = <<bpredictor, bquery, bpredictions>>
    /\ uvars' = uvars

\* C15: train_vec with an empty vector is a no-op in every reachable state of
\* a BigramTrainer, the freshly made one included: the call completes
\* normally and leaves outer_map and prev_word unchanged.
C15_EmptyVectorIsNoOp ==
    [][EmptyVectorTrainStep =>
          /\ bphase' = "training"
          /\ outer_map' = outer_map
          /\ prev_word' = prev_word]_vars

\* with a word pending, the empty vector leaves the trainer as it was
C15_WithPendingWord ==
    [][(EmptyVectorTrainStep /\ IsSome(prev_word)) =>
          /\ bphase' = "training"
          /\ outer_map' = outer_map
          /\ prev_word' = prev_word]_vars

----------------------------------------------------------------------------
(* Properties of finalize and of PredictionEntry *)

\* the count of token t alone: a trainer given one train_vec call with as
\* many copies of t as were fed
CountedAlone(t) == count_words(EmptyMap, [i \in 1..fed[t] |-> t])

\* the map made from the bag of fed tokens alone, token by token
FedMap ==
    [t \in {u \in DOMAIN fed : u \in DOMAIN CountedAlone(u)} |-> CountedAlone(t)[t]]

\* C16: finalize is deterministic in the multiset of trained tokens: whatever
\* the order of the tokens, their split over train calls and the iteration
\* order of the hash map, the entries and ixs of the predictor are the same
\* (here: those that the bag of fed tokens gives, token by token, with the
\* map iterated in ascending order).
C16_FinalizeDependsOnMultisetOnly ==
    (phase \in {"finalized", "aborted"} /\ IsSome(predictor)) =>
        /\ hm = FedMap
        /\ Unwrap(predictor) = finalize(hm, Ascending(DOMAIN hm))

\* a predictor of three words or more in two buckets, trained in two calls
\* or more
C16_Witness ==
    /\ phase = "finalized"
    /\ calls >= 2
    /\ Len(Unwrap(predictor).entries) >= 3
    /\ Cardinality(DOMAIN Unwrap(predictor).ixs) >= 2
    /\ \E t \in DOMAIN fed : fed[t] >= 2

\* the entries that the last predict call returned
Predicted == {predictions[i] : i \in 1..Len(predictions)}

\* scores an expected entry may carry: from 0 to one more than the true score
ExpectedScores(a) == 0..(a.score + 1)

\* C17: equality and order of PredictionEntry depend on the word alone and
\* never on the score: a == b exactly when the words are equal, cmp is the
\* lexical comparison of the words, and so an assert_eq between a predicted
\* entry and an expected entry of the same word holds for any expected score.
C17_EntryComparesByWordOnly ==
    Answered("predictor") =>
        \A a \in Predicted, b \in Predicted :
            /\ EntryEq(a, b) <=> (a.word = b.word)
            /\ (EntryCmp(a, b) = "Less") <=> StrLess(a.word, b.word)
            /\ (EntryCmp(a, b) = "Equal") <=> (a.word = b.word)
            /\ (EntryCmp(a, b) = "Less") <=> EntryLess(a, b)
            /\ \A n \in ExpectedScores(a), m \in ExpectedScores(b) :
                   /\ EntryEq(PredictionEntry(a.word, n), PredictionEntry(b.word, m))
                          <=> EntryEq(a, b)
                   /\ EntryCmp(PredictionEntry(a.word, n), PredictionEntry(b.word, m))
                          = EntryCmp(a, b)
                   /\ assert_eq(a, PredictionEntry(a.word, n))

\* a predict call that returned two entries or more, the first with a score
\* of two or more, so that expected scores below and above it are compared
C17_Witness ==
    /\ Answered("predictor")
    /\ Len(predictions) >= 2
    /\ predictions[1].score >= 2
    /\ predictions[1].score > predictions[Len(predictions)].score

====
